---------------------------- MODULE Spec2Model ----------------------------
(***************************************************************************)
(* Budget store, period resolution and budget report of the Personal       *)
(* Finance Tracker (src/app/budget.py, src/app/main.py, db_handler.py).    *)
(*                                                                         *)
(* Modelling conventions                                                   *)
(*  - A Python str is a sequence of one-character strings, so that         *)
(*    str.split and int() are computed, not assumed.                       *)
(*  - Money amounts are whole numbers; every quotient the code forms       *)
(*    (ratios, percentages, projections) is kept as an exact rational      *)
(*    [n |-> numerator, d |-> denominator] with d > 0.  The code computes  *)
(*    them in binary floating point; the model does not carry its          *)
(*    rounding error.                                                      *)
(*  - A pandas Timestamp is [year, month, day, hour]; Timestamps compare   *)
(*    lexicographically, as pandas compares them.                          *)
(*  - date.today() is the variable today: the code reads it, no caller     *)
(*    passes it.                                                           *)
(***************************************************************************)
EXTENDS Integers, Sequences, FiniteSets, TLC

VARIABLES
    budgets,      \* rows of table budgets: [id, period, category, amount]
    nextId,       \* next AUTOINCREMENT id of table budgets
    lastOp,       \* the last store operation and how it ended
    today,        \* date.today(): [year, month, day]
    period,       \* argument period of build_budget_report
    tx_df,        \* argument tx_df: a set of transaction rows
    budgets_df,   \* argument budgets_df: a sequence of budget rows
    call,         \* the last call of build_budget_report and what it returned
    prevCall,     \* the call before it
    tips          \* the last call of generate_tips and what it returned

vars ==
    <<budgets, nextId, lastOp, today, period, tx_df, budgets_df, call, prevCall,
      tips>>

None == [kind |-> "none"]

\* no store operation yet
NoOp ==
    [op |-> "none", period |-> <<>>, category |-> "", amount |-> 0, id |-> 0,
     outcome |-> ""]

(***************************************************************************)
(* Bounds of the model.                                                    *)
(***************************************************************************)
FirstYear == 2023
LastYear == 2024
MaxId == 4
MaxTx == 2
MaxBudgetRows == 2
MaxActualStep == 144

(***************************************************************************)
(* Python strings.                                                         *)
(***************************************************************************)
Digits == <<"0", "1", "2", "3", "4", "5", "6", "7", "8", "9">>

IsDigit(c) == \E i \in 1..10 : Digits[i] = c

DigitVal(c) == (CHOOSE i \in 1..10 : Digits[i] = c) - 1

\* str.split(sep) for a one-character separator: the fields between the
\* separators, empty fields kept; "" splits into [""].
RECURSIVE Split(_, _)
Split(s, sep) ==
    IF \A i \in 1..Len(s) : s[i] # sep
    THEN <<s>>
    ELSE LET k == CHOOSE i \in 1..Len(s) :
                      s[i] = sep /\ \A j \in 1..(i - 1) : s[j] # sep
         IN  <<SubSeq(s, 1, k - 1)>> \o Split(SubSeq(s, k + 1, Len(s)), sep)

\* str.strip() restricted to the blank.
RECURSIVE Strip(_)
Strip(s) ==
    IF s = <<>> THEN s
    ELSE IF Head(s) = " " THEN Strip(Tail(s))
    ELSE IF s[Len(s)] = " " THEN Strip(SubSeq(s, 1, Len(s) - 1))
    ELSE s

RECURSIVE DigitsVal(_)
DigitsVal(s) ==
    IF s = <<>> THEN 0
    ELSE 10 * DigitsVal(SubSeq(s, 1, Len(s) - 1)) + DigitVal(s[Len(s)])

\* int(str): blanks around are dropped, one sign is allowed, then at least
\* one digit and digits only; anything else raises ValueError.
PyInt(s) ==
    LET t == Strip(s)
        signed == t # <<>> /\ Head(t) \in {"+", "-"}
        body == IF signed THEN Tail(t) ELSE t
    IN  IF body # <<>> /\ \A i \in 1..Len(body) : IsDigit(body[i])
        THEN [ok |-> TRUE,
              val |-> IF signed /\ Head(t) = "-" THEN 0 - DigitsVal(body)
                      ELSE DigitsVal(body)]
        ELSE [ok |-> FALSE, val |-> 0]

(***************************************************************************)
(* The calendar.                                                           *)
(***************************************************************************)
IsLeap(year) == (year % 4 = 0 /\ year % 100 # 0) \/ year % 400 = 0

monthrange_no_leap(year, mon) ==
    IF mon = 2 THEN 28
    ELSE IF mon \in {4, 6, 9, 11} THEN 30
    ELSE 31

\* calendar.monthrange(year, mon)[1]: the number of days of the month
monthrange(year, mon) ==
    IF mon = 2 THEN (IF IsLeap(year) THEN 29 ELSE 28)
    ELSE IF mon \in {4, 6, 9, 11} THEN 30
    ELSE 31

\* pd.Timestamp(year=, month=, day=): midnight of that day
Timestamp(year, month, day) ==
    [year |-> year, month |-> month, day |-> day, hour |-> 0]

\* a < b on Timestamps
TsLess(a, b) ==
    \/ a.year < b.year
    \/ a.year = b.year /\ a.month < b.month
    \/ a.year = b.year /\ a.month = b.month /\ a.day < b.day
    \/ a.year = b.year /\ a.month = b.month /\ a.day = b.day /\ a.hour < b.hour

TsLeq(a, b) == a = b \/ TsLess(a, b)

\* pd.Timestamp raises ValueError for a month outside 1..12 and for a date
\* outside its range 1677-09-21 .. 2262-04-11.
TimestampOk(year, month, day) ==
    /\ month \in 1..12
    /\ TsLeq(Timestamp(1677, 9, 22), Timestamp(year, month, day))
    /\ TsLeq(Timestamp(year, month, day), Timestamp(2262, 4, 11))

(***************************************************************************)
(* Exact rationals for the float columns of the report.                    *)
(***************************************************************************)
Rat(n, d) == IF d < 0 THEN [n |-> 0 - n, d |-> 0 - d] ELSE [n |-> n, d |-> d]

RatInt(i) == [n |-> i, d |-> 1]

RatSub(a, b) == Rat(a.n * b.d - b.n * a.d, a.d * b.d)

RatAdd(a, b) == Rat(a.n * b.d + b.n * a.d, a.d * b.d)

RatMul(a, b) == Rat(a.n * b.n, a.d * b.d)

\* a / b for b # 0
RatDiv(a, b) == Rat(a.n * b.d, a.d * b.n)

RatLess(a, b) == a.n * b.d < b.n * a.d

RatLeq(a, b) == a.n * b.d <= b.n * a.d

RatMax(a, b) == IF RatLess(a, b) THEN b ELSE a

\* round(): to the nearest integer, a tie to the even one (Python's round
\* and pandas' Series.round agree on this)
Round(a) ==
    LET q == a.n \div a.d
        r == a.n % a.d
    IN  IF 2 * r < a.d THEN q
        ELSE IF 2 * r > a.d THEN q + 1
        ELSE IF q % 2 = 0 THEN q ELSE q + 1

\* Series.round(1), in tenths
Round1(a) == Round(RatMul(a, RatInt(10)))

Min(a, b) == IF a < b THEN a ELSE b

Max(a, b) == IF a < b THEN b ELSE a

(***************************************************************************)
(* _month_bounds                                                           *)
(***************************************************************************)
ValueError == [ok |-> FALSE, error |-> "ValueError"]

\* the branches of _month_bounds with the months compared without the year
days_elapsed_month_only(start, dim) ==
    IF start.year = today.year /\ start.month = today.month
    THEN today.day
    ELSE IF start.month < today.month
    THEN dim
    ELSE 1

\* the branches of _month_bounds on the date the previous call read
days_elapsed_stale(start, dim) ==
    LET now == IF call = None THEN today ELSE call.today
    IN  IF start.year = now.year /\ start.month = now.month
        THEN now.day
        ELSE IF TsLess(start, Timestamp(now.year, now.month, 1))
        THEN dim
        ELSE 1

\* the branches of _month_bounds with a past month counted like a future one
days_elapsed_past_as_future(start, dim) ==
    IF start.year = today.year /\ start.month = today.month
    THEN today.day
    ELSE 1

\* days_elapsed: today's day in the month of today, dim in a month before
\* today.replace(day=1), 1 in a month after it
days_elapsed_of(start, dim) ==
    IF start.year = today.year /\ start.month = today.month
    THEN today.day
    ELSE IF TsLess(start, Timestamp(today.year, today.month, 1))
    THEN dim
    ELSE 1

\* an unpacking that drops the fields after the second
unpack_first_two(fields) == Len(fields) >= 2

\* year, mon = ...: unpacking raises ValueError unless there are two fields
unpack_ok(fields) == Len(fields) = 2

_month_bounds(p) ==
    LET fields == Split(p, "-")
    IN  IF ~unpack_ok(fields) THEN ValueError
        ELSE LET year == PyInt(fields[1])
                 mon == PyInt(fields[2])
             IN  IF ~year.ok \/ ~mon.ok THEN ValueError
                 ELSE IF ~TimestampOk(year.val, mon.val, 1) THEN ValueError
                 ELSE LET dim == monthrange(year.val, mon.val)
                      IN  IF ~TimestampOk(year.val, mon.val, dim)
                          THEN ValueError
                          ELSE [ok |-> TRUE,
                                start |-> Timestamp(year.val, mon.val, 1),
                                end |-> Timestamp(year.val, mon.val, dim),
                                dim |-> dim,
                                days_elapsed |->
                                    days_elapsed_of(
                                        Timestamp(year.val, mon.val, 1), dim)]

(***************************************************************************)
(* build_budget_report                                                     *)
(***************************************************************************)
\* Python's order of the category names that occur (str comparison)
CategoryOrder == <<"Bills", "Food", "Overall", "Rent", "Travel">>

Rank(c) == CHOOSE i \in 1..Len(CategoryOrder) : CategoryOrder[i] = c

RECURSIVE SumAmount(_)
SumAmount(S) ==
    IF S = {} THEN 0
    ELSE LET t == CHOOSE x \in S : TRUE
         IN  t.amount + SumAmount(S \ {t})

\* tx[(tx["date"] >= start) & (tx["date"] <= end)]
in_window(tx, start, end) ==
    {t \in tx : TsLeq(start, t.date) /\ TsLeq(t.date, end)}

\* tx[tx["type"].str.lower() == "expense"]
expenses_only(tx) == {t \in tx : t.type = "expense"}

\* the rows of tx that build_budget_report keeps
filtered_tx(tx, mb) == expenses_only(in_window(tx, mb.start, mb.end))

\* tx.groupby("category")["amount"].sum(), left-merged on the budget row's
\* category and fillna(0.0): a category without a row has actual 0
category_actual(ftx, category) ==
    SumAmount({t \in ftx : t.category = category})

\* the actual of one budget row: the 'Overall' row takes tx["amount"].sum()
row_actual(ftx, category) ==
    IF category = "Overall" THEN SumAmount(ftx)
    ELSE category_actual(ftx, category)

\* day_ratio = max(1, days_elapsed) / dim
day_ratio(mb) == Rat(Max(1, mb.days_elapsed), mb.dim)

\* the ratio without its floor of 0.5
safe_ratio_unfloored(mb) == day_ratio(mb)

\* safe_ratio = max(0.5, day_ratio)
safe_ratio(mb) == RatMax(Rat(1, 2), day_ratio(mb))

\* pct_used with the unset budget taken as 1
pct_used_of_unguarded(b, a) ==
    IF b = 0 THEN RatMax(RatInt(0), Rat(a * 100, 1))
    ELSE RatMax(RatInt(0), Rat(a * 100, b))

\* pct_used: actual / budget * 100, NA for budget 0, fillna(0.0), clip(lower=0)
pct_used_of(b, a) ==
    IF b = 0 THEN RatInt(0)
    ELSE RatMax(RatInt(0), Rat(a * 100, b))

\* the percentage without the clamp
cut_pct_unclamped(lo, hi, x) == Round(RatMul(x, RatInt(100)))

\* the percentage truncated, not rounded
cut_pct_truncated(lo, hi, x) ==
    LET y == RatMul(x, RatInt(100))
    IN  Min(hi, Max(lo, y.n \div y.d))

\* cut_pct = min(hi, max(lo, round(x * 100)))
cut_pct(lo, hi, x) == Min(hi, Max(lo, Round(RatMul(x, RatInt(100)))))

\* the comparison with >=
ahead_of_pace_or_level(used, elapsed_pct) ==
    RatLeq(RatAdd(elapsed_pct, RatInt(10)), used)

\* used > elapsed_pct + 10
ahead_of_pace(used, elapsed_pct) ==
    RatLess(RatAdd(elapsed_pct, RatInt(10)), used)

\* the if / elif chain of the status loop, with the rules 3 and 4 swapped
classify_delta_first(b, a, d, proj_d, used, elapsed_pct) ==
    IF b = 0 /\ a = 0
    THEN [status |-> "No budget set", action |-> "Set a realistic budget", cut |-> 0]
    ELSE IF b = 0 /\ a > 0
    THEN [status |-> "Spending without a budget", action |-> "Set a budget", cut |-> 0]
    ELSE IF d > 0
    THEN [status |-> "Slightly over", action |-> "Dial back",
          cut |-> cut_pct(5, 10, Rat(d, b))]
    ELSE IF RatLess(RatInt(0), proj_d)
            /\ RatLeq(Rat(1, 10), RatDiv(proj_d, RatInt(b)))
    THEN [status |-> "Over budget (projected)", action |-> "Cut spending",
          cut |-> cut_pct(5, 20, RatDiv(proj_d, RatInt(b)))]
    ELSE IF ahead_of_pace(used, elapsed_pct)
    THEN [status |-> "Ahead of pace", action |-> "Slow down", cut |-> 0]
    ELSE [status |-> "On track", action |-> "Keep the same pace", cut |-> 0]

\* the if / elif chain of the status loop with one test b == 0 for the rows
\* without a budget
classify_unset_budget(b, a, d, proj_d, used, elapsed_pct) ==
    IF b = 0
    THEN [status |-> "No budget set", action |-> "Set a realistic budget", cut |-> 0]
    ELSE IF RatLess(RatInt(0), proj_d)
            /\ RatLeq(Rat(1, 10), RatDiv(proj_d, RatInt(b)))
    THEN [status |-> "Over budget (projected)", action |-> "Cut spending",
          cut |-> cut_pct(5, 20, RatDiv(proj_d, RatInt(b)))]
    ELSE IF d > 0
    THEN [status |-> "Slightly over", action |-> "Dial back",
          cut |-> cut_pct(5, 10, Rat(d, b))]
    ELSE IF ahead_of_pace(used, elapsed_pct)
    THEN [status |-> "Ahead of pace", action |-> "Slow down", cut |-> 0]
    ELSE [status |-> "On track", action |-> "Keep the same pace", cut |-> 0]

\* the if / elif chain of the status loop: status, suggested action and the
\* percentage the action names (0 when it names none)
classify(b, a, d, proj_d, used, elapsed_pct) ==
    IF b = 0 /\ a = 0
    THEN [status |-> "No budget set", action |-> "Set a realistic budget", cut |-> 0]
    ELSE IF b = 0 /\ a > 0
    THEN [status |-> "Spending without a budget", action |-> "Set a budget", cut |-> 0]
    ELSE IF RatLess(RatInt(0), proj_d)
            /\ RatLeq(Rat(1, 10), RatDiv(proj_d, RatInt(b)))
    THEN [status |-> "Over budget (projected)", action |-> "Cut spending",
          cut |-> cut_pct(5, 20, RatDiv(proj_d, RatInt(b)))]
    ELSE IF d > 0
    THEN [status |-> "Slightly over", action |-> "Dial back",
          cut |-> cut_pct(5, 10, Rat(d, b))]
    ELSE IF ahead_of_pace(used, elapsed_pct)
    THEN [status |-> "Ahead of pace", action |-> "Slow down", cut |-> 0]
    ELSE [status |-> "On track", action |-> "Keep the same pace", cut |-> 0]

\* one row of df after the metrics and the status loop
df_row(brow, ftx, mb) ==
    LET b == brow.amount
        a == row_actual(ftx, brow.category)
        elapsed_pct == RatMul(day_ratio(mb), RatInt(100))
        used == pct_used_of(b, a)
        proj == RatDiv(RatInt(a), safe_ratio(mb))
        proj_d == RatSub(proj, RatInt(b))
        c == classify(b, a, a - b, proj_d, used, elapsed_pct)
    IN  [category |-> brow.category,
         budget |-> b,
         actual |-> a,
         delta |-> a - b,
         pct_used |-> used,
         elapsed_pct |-> elapsed_pct,
         projected_end |-> proj,
         proj_delta |-> proj_d,
         pace_gap |-> RatSub(used, elapsed_pct),
         status |-> c.status,
         action |-> c.action,
         cut |-> c.cut]

\* df: one row per row of budgets_df, in its order (left merge)
df_of(bdf, ftx, mb) == [i \in 1..Len(bdf) |-> df_row(bdf[i], ftx, mb)]

\* one row of the returned frame: the rounded display columns
out_row(r) ==
    [Category |-> r.category,
     Budget |-> r.budget,
     Actual |-> r.actual,
     Delta |-> r.delta,
     PctUsed |-> Round1(r.pct_used),
     MonthElapsed |-> Round1(r.elapsed_pct),
     PaceGap |-> Round1(r.pace_gap),
     ProjectedEnd |-> Round(r.projected_end),
     ProjDelta |-> Round(r.proj_delta),
     Status |-> r.status,
     Action |-> r.action,
     Cut |-> r.cut]

\* the frame left in its row order
unsorted(rows) == rows

\* sort_values("Category").reset_index(drop=True)
RECURSIVE sort_values(_)
sort_values(rows) ==
    IF rows = <<>> THEN <<>>
    ELSE LET k == CHOOSE i \in 1..Len(rows) :
                      \A j \in 1..Len(rows) :
                          \/ Rank(rows[i].Category) < Rank(rows[j].Category)
                          \/ (Rank(rows[i].Category) = Rank(rows[j].Category)
                              /\ i <= j)
             rest == [j \in 1..(Len(rows) - 1) |->
                          IF j < k THEN rows[j] ELSE rows[j + 1]]
         IN  <<rows[k]>> \o sort_values(rest)

\* build_budget_report(period, tx_df, budgets_df): what it raises or returns
build_budget_report(p, tx, bdf) ==
    LET mb == _month_bounds(p)
    IN  IF ~mb.ok
        THEN [ok |-> FALSE, error |-> mb.error, mb |-> mb, df |-> <<>>, rows |-> <<>>]
        ELSE IF bdf = <<>>
        THEN [ok |-> TRUE, error |-> "", mb |-> mb, df |-> <<>>, rows |-> <<>>]
        ELSE LET df == df_of(bdf, filtered_tx(tx, mb), mb)
             IN  [ok |-> TRUE, error |-> "", mb |-> mb, df |-> df,
                  rows |-> sort_values([i \in 1..Len(df) |-> out_row(df[i])])]

(***************************************************************************)
(* generate_tips.  A tip is the record of what its string names: the        *)
(* general tips are fixed strings, a tip of rule 1 is formatted from the    *)
(* row's Category, int(Proj Δ), over_pct and Suggested Action (the action   *)
(* and the percentage it names).                                            *)
(***************************************************************************)
Tip(kind, category, projected, over_pct, action, cut) ==
    [kind |-> kind, category |-> category, projected |-> projected,
     over_pct |-> over_pct, action |-> action, cut |-> cut]

\* "You're ahead of pace in multiple categories. Consider a 1-2 week spend
\* freeze on non-essentials."
SpendFreezeTip == Tip("spend freeze", "", 0, 0, "", 0)

\* "Great job - most categories are on track. Consider moving surplus to
\* savings/investments."
OnTrackTip == Tip("on track", "", 0, 0, "", 0)

\* risky.sort_values("risk", ascending=False) with risk = "Proj Δ": the
\* orders of the row positions it can produce.  The default sort kind is not
\* stable, so rows of equal risk come in any order.
RECURSIVE risk_orders(_, _)
risk_orders(rows, idx) ==
    IF idx = {} THEN {<<>>}
    ELSE UNION {{<<i>> \o t : t \in risk_orders(rows, idx \ {i})} :
                   i \in {k \in idx :
                             \A j \in idx :
                                 rows[j].ProjDelta <= rows[k].ProjDelta}}

\* risky[risky["risk"] > 0]
positive_risk(rows, order) ==
    SelectSeq(order, LAMBDA i : rows[i].ProjDelta > 0)

\* the rows of positive risk, all of them
head_all(order) == order

\* .head(3)
head(order) == SubSeq(order, 1, Min(3, Len(order)))

\* the tip of rule 1 for one row: over_pct = int(round((proj_over / b) * 100))
\* if b > 0 else 0, with b = r["Budget"] and proj_over = r["Proj Δ"]
overage_tip(r) ==
    Tip("overage", r.Category, r.ProjDelta,
        IF r.Budget > 0 THEN Round(Rat(r.ProjDelta * 100, r.Budget)) ELSE 0,
        r.Action, r.Cut)

\* (report_df["Status"] == "Ahead of pace").sum()
ahead_count(rows) ==
    Cardinality({i \in 1..Len(rows) : rows[i].Status = "Ahead of pace"})

\* the pacing tip for a single row ahead of pace
many_ahead_one(rows) == ahead_count(rows) >= 1

\* if ahead_count >= 2
many_ahead(rows) == ahead_count(rows) >= 2

\* (report_df["Status"] == "On track").mean(), of a frame that is not empty
on_track_ratio(rows) ==
    Rat(Cardinality({i \in 1..Len(rows) : rows[i].Status = "On track"}),
        Len(rows))

\* the comparison made strict
most_on_track_strict(rows) == RatLess(Rat(6, 10), on_track_ratio(rows))

\* if on_track_ratio >= 0.6
most_on_track(rows) == RatLeq(Rat(6, 10), on_track_ratio(rows))

\* list(dict.fromkeys(tips)): the first occurrence of each tip, in order
RECURSIVE dedupe(_)
dedupe(s) ==
    IF s = <<>> THEN <<>>
    ELSE LET init == dedupe(SubSeq(s, 1, Len(s) - 1))
             last == s[Len(s)]
         IN  IF \E i \in 1..Len(init) : init[i] = last
             THEN init
             ELSE Append(init, last)

\* the tips with the general tips appended before those of rule 1
general_tips_first(risk_tips, rows) ==
    dedupe((IF many_ahead(rows) THEN <<SpendFreezeTip>> ELSE <<>>)
           \o (IF most_on_track(rows) THEN <<OnTrackTip>> ELSE <<>>)
           \o risk_tips)

\* tips.append(...) in the order of the rules 1, 2, 3, then the
\* de-duplication
collect_tips(risk_tips, rows) ==
    dedupe(risk_tips
           \o (IF many_ahead(rows) THEN <<SpendFreezeTip>> ELSE <<>>)
           \o (IF most_on_track(rows) THEN <<OnTrackTip>> ELSE <<>>))

\* generate_tips(report_df, period, tx_df): the lists it can return (period
\* and tx_df are not read)
generate_tips(report_df) ==
    IF report_df = <<>> THEN {<<>>}
    ELSE {LET risky == head(positive_risk(report_df, order))
          IN  collect_tips([k \in 1..Len(risky) |->
                               overage_tip(report_df[risky[k]])],
                           report_df) :
              order \in risk_orders(report_df, 1..Len(report_df))}

(***************************************************************************)
(* The budget store (table budgets)                                        *)
(***************************************************************************)
\* if amount < 0: raise ValueError
amount_rejected_negative_only(amount) == amount < 0

\* if amount <= 0: raise ValueError
amount_rejected(amount) == amount <= 0

\* CHECK (amount > 0)
check_amount(amount) == amount > 0

\* UNIQUE(period, category): the row an INSERT of this key conflicts with
conflicting_in(table, p, category) ==
    {r \in table : r.period = p /\ r.category = category}

conflicting(p, category) == conflicting_in(budgets, p, category)

\* ON CONFLICT(period, category) DO NOTHING
do_nothing(rows, amount) == rows

\* ON CONFLICT(period, category) DO UPDATE SET amount=excluded.amount
do_update(rows, amount) == {[r EXCEPT !.amount = amount] : r \in rows}

\* the same statement on a table whose id is a plain INTEGER PRIMARY KEY: a
\* new row takes the largest id in the table plus one
upserted_max_rowid(table, nid, p, category, amount) ==
    IF conflicting_in(table, p, category) # {}
    THEN (table \ conflicting_in(table, p, category))
             \cup do_update(conflicting_in(table, p, category), amount)
    ELSE table \cup {[id |-> IF table = {} THEN 1
                            ELSE 1 + (CHOOSE i \in {r.id : r \in table} :
                                          \A r \in table : r.id <= i),
                      period |-> p, category |-> category,
                      amount |-> amount]}

\* the table after INSERT ... ON CONFLICT(period, category) DO UPDATE run
\* with the rowid nid
upserted(table, nid, p, category, amount) ==
    IF conflicting_in(table, p, category) # {}
    THEN (table \ conflicting_in(table, p, category))
             \cup do_update(conflicting_in(table, p, category), amount)
    ELSE table \cup {[id |-> nid, period |-> p, category |-> category,
                      amount |-> amount]}

\* upsert_budget(period, category, amount).  A statement that inserts or
\* updates takes the next AUTOINCREMENT id either way: SQLite allots the
\* rowid before it finds the conflict and records it in sqlite_sequence.
upsert_budget(p, category, amount) ==
    /\ nextId <= MaxId
    /\ IF amount_rejected(amount)
       THEN /\ lastOp' = [op |-> "upsert_budget", period |-> p,
                          category |-> category, amount |-> amount, id |-> 0,
                          outcome |-> "ValueError"]
            /\ UNCHANGED <<budgets, nextId>>
       ELSE IF ~check_amount(amount)
       THEN /\ lastOp' = [op |-> "upsert_budget", period |-> p,
                          category |-> category, amount |-> amount, id |-> 0,
                          outcome |-> "IntegrityError"]
            /\ UNCHANGED <<budgets, nextId>>
       ELSE /\ lastOp' = [op |-> "upsert_budget", period |-> p,
                          category |-> category, amount |-> amount, id |-> 0,
                          outcome |-> "ok"]
            /\ budgets' = upserted(budgets, nextId, p, category, amount)
            /\ nextId' = nextId + 1
    /\ UNCHANGED <<today, period, tx_df, budgets_df, call, prevCall, tips>>

\* delete_budget(budget_id)
delete_budget(budget_id) ==
    /\ lastOp' = [op |-> "delete_budget", period |-> <<>>, category |-> "",
                  amount |-> 0, id |-> budget_id, outcome |-> "ok"]
    /\ budgets' = {r \in budgets : r.id # budget_id}
    /\ UNCHANGED <<nextId, today, period, tx_df, budgets_df, call, prevCall,
                   tips>>

\* get_budgets(period): SELECT id, category, amount FROM budgets WHERE
\* period=? ORDER BY category
RECURSIVE get_budgets_of(_)
get_budgets_of(rows) ==
    IF rows = {} THEN <<>>
    ELSE LET r == CHOOSE x \in rows :
                      \A y \in rows : Rank(x.category) <= Rank(y.category)
         IN  <<[id |-> r.id, category |-> r.category, amount |-> r.amount]>>
                 \o get_budgets_of(rows \ {r})

get_budgets(p) == get_budgets_of({r \in budgets : r.period = p})

\* str(n) of an integer n >= 0
RECURSIVE FormatInt(_)
FormatInt(n) ==
    IF n < 10 THEN <<Digits[n + 1]>>
    ELSE FormatInt(n \div 10) \o <<Digits[(n % 10) + 1]>>

\* f"{n:02d}" of an integer n >= 0
Format02d(n) == IF n < 10 THEN <<"0">> \o FormatInt(n) ELSE FormatInt(n)

\* the previous period counted within the year: f"{yr}-12" for January
prev_period_same_year(p) ==
    LET fields == Split(p, "-")
        yr == PyInt(fields[1]).val
        mo == PyInt(fields[2]).val
    IN  IF mo = 1 THEN FormatInt(yr) \o <<"-", "1", "2">>
        ELSE FormatInt(yr) \o <<"-">> \o Format02d(mo - 1)

\* yr, mo = map(int, period.split("-")); prev_period = f"{yr-1}-12" if
\* mo == 1 else f"{yr}-{mo-1:02d}", of a period of the month selectbox
prev_period(p) ==
    LET fields == Split(p, "-")
        yr == PyInt(fields[1]).val
        mo == PyInt(fields[2]).val
    IN  IF mo = 1 THEN FormatInt(yr - 1) \o <<"-", "1", "2">>
        ELSE FormatInt(yr) \o <<"-">> \o Format02d(mo - 1)

\* for _, r in prev_df.iterrows(): upsert_budget(period, r["category"],
\* float(r["amount"])): the table and the next id after the loop.  Every
\* call takes an id; a call that raises ends the loop.
RECURSIVE copy_rows(_, _, _, _)
copy_rows(rows, table, nid, p) ==
    IF rows = <<>> THEN [budgets |-> table, nextId |-> nid, outcome |-> "ok"]
    ELSE IF amount_rejected(Head(rows).amount)
    THEN [budgets |-> table, nextId |-> nid, outcome |-> "ValueError"]
    ELSE copy_rows(Tail(rows),
                   upserted(table, nid, p, Head(rows).category,
                            Head(rows).amount),
                   nid + 1, p)

\* the button "Copy last month's budgets" with the period p selected
copy_prev(p) ==
    LET prev_df == get_budgets(prev_period(p))
        after == copy_rows(prev_df, budgets, nextId, p)
    IN  /\ nextId + Len(prev_df) <= MaxId + 1
        /\ lastOp' = [op |-> "copy_prev", period |-> p, category |-> "",
                      amount |-> 0, id |-> 0,
                      outcome |-> IF prev_df = <<>> THEN "none found"
                                  ELSE after.outcome]
        /\ budgets' = after.budgets
        /\ nextId' = after.nextId
        /\ UNCHANGED <<today, period, tx_df, budgets_df, call, prevCall, tips>>

(***************************************************************************)
(* The inputs the operations are run on                                    *)
(***************************************************************************)
\* the days of a month of the clock's calendar
CalendarDays(year, month) ==
    IF month = 2
    THEN (IF (year % 4 = 0 /\ year % 100 # 0) \/ year % 400 = 0 THEN 29 ELSE 28)
    ELSE IF month \in {4, 6, 9, 11} THEN 30
    ELSE 31

AllDates ==
    {x \in [year : FirstYear..LastYear, month : 1..12, day : 1..31] :
        x.day <= CalendarDays(x.year, x.month)}

\* 'YYYY-MM' of a year and a month
YearMonth(y, m) ==
    <<Digits[((y \div 1000) % 10) + 1], Digits[((y \div 100) % 10) + 1],
      Digits[((y \div 10) % 10) + 1], Digits[(y % 10) + 1], "-",
      Digits[((m \div 10) % 10) + 1], Digits[(m % 10) + 1]>>

ValidPeriods == {YearMonth(y, m) : y \in FirstYear..LastYear, m \in 1..12}

\* strings that are not 'YYYY-MM'
OddPeriods ==
    {<<"2", "0", "2", "4", "-", "3">>,
     <<"2", "0", "2", "4", "-", " ", "3">>,
     <<"2", "0", "2", "4", "-", "+", "3">>,
     <<"2", "0", "2", "4">>,
     <<"2", "0", "2", "4", "-", "0", "3", "-", "0", "1">>,
     <<"2", "0", "2", "4", "-", "x", "x">>,
     <<>>,
     <<"2", "0", "2", "4", "-", "1", "3">>,
     <<"2", "0", "2", "4", "-", "0", "0">>,
     <<"2", "0", "2", "4", "-">>,
     <<"-", "0", "3">>,
     <<"2", "0", "x", "4", "-", "0", "3">>,
     <<"0", "0", "0", "0", "-", "0", "1">>,
     <<"2", "0", "2", "4", "-", "1", "x">>}

\* the dates the clock shows in the report runs
ClockDates ==
    {[year |-> 2024, month |-> 2, day |-> 20],
     [year |-> 2024, month |-> 3, day |-> 1],
     [year |-> 2024, month |-> 3, day |-> 15],
     [year |-> 2024, month |-> 3, day |-> 31],
     [year |-> 2024, month |-> 4, day |-> 10]}

DateLess(a, b) ==
    TsLess(Timestamp(a.year, a.month, a.day), Timestamp(b.year, b.month, b.day))

ReportPeriods == {YearMonth(2024, 3), YearMonth(2024, 4)}

Tx(id, month, day, hour, amount, category, type) ==
    [id |-> id,
     date |-> [year |-> 2024, month |-> month, day |-> day, hour |-> hour],
     amount |-> amount, category |-> category, type |-> type]

\* the transactions the frames are drawn from.  tx["date"] is a datetime64
\* column after pd.to_datetime, so a row may carry a time of day; the pool
\* holds rows at midnight and rows later in the day, on the first and last
\* day of March 2024, inside it and after it, of both types and of a
\* category that has no budget.
TxPool ==
    {Tx(1, 3, 1, 0, 1800, "Food", "expense"),
     Tx(2, 3, 31, 0, 600, "Food", "expense"),
     Tx(3, 3, 31, 10, 1200, "Rent", "expense"),
     Tx(4, 3, 15, 0, 5000, "Food", "income"),
     Tx(5, 4, 1, 0, 700, "Rent", "expense"),
     Tx(6, 3, 10, 9, 400, "Travel", "expense")}

TxFrames == {S \in SUBSET TxPool : Cardinality(S) <= MaxTx}

BudgetCategories == {"Food", "Overall", "Rent"}

BudgetAmounts == {0, 1000, 3000}

\* budget frames: distinct categories, in any row order.  The table only
\* holds amounts > 0; amount 0 is what build_budget_report's rules for
\* b == 0 are written for.
BudgetFrames ==
    UNION {{f \in [1..n -> [category : BudgetCategories, amount : BudgetAmounts]] :
               \A i, j \in 1..n : i # j => f[i].category # f[j].category} :
           n \in 0..MaxBudgetRows}

StorePeriods == {YearMonth(2024, 2), YearMonth(2024, 3)}

StoreCategories == {"Food", "Overall"}

StoreAmounts == {0 - 500, 0, 1000, 3000}

\* the Budgets & Tips page: the table of the period's budgets, the
\* transactions and the dates it is opened on.  Every budget is stored with
\* an amount > 0.
TipCategories == {"Bills", "Food", "Overall", "Rent", "Travel"}

TipAmounts == {1000, 2500}

TipTxPool ==
    {Tx(1, 3, 1, 0, 1800, "Food", "expense"),
     Tx(7, 3, 5, 0, 450, "Bills", "expense"),
     Tx(8, 3, 3, 0, 520, "Rent", "expense"),
     Tx(9, 3, 10, 9, 871, "Travel", "expense")}

TipDates ==
    {[year |-> 2024, month |-> 3, day |-> 10],
     [year |-> 2024, month |-> 3, day |-> 27],
     [year |-> 2024, month |-> 3, day |-> 31]}

\* the tables with at most one budget per category of TipCategories
TipTables ==
    {{[id |-> Rank(c), period |-> YearMonth(2024, 3), category |-> c,
       amount |-> f[c]] : c \in {x \in TipCategories : f[x] > 0}} :
        f \in [TipCategories -> {0} \cup TipAmounts]}

\* one budget and one expense of its category on the first day of the
\* period, over a range of amounts, on every date of the period's month, on
\* a date before it and on a date after it
RuleBudgets == {0, 1000, 3000}

RuleActuals == {25 * k : k \in 0..MaxActualStep}

RuleMonth(p) == IF p = YearMonth(2024, 3) THEN 3 ELSE 4

RuleDates(p) ==
    {d \in AllDates :
        /\ d.year = 2024
        /\ \/ d.month = RuleMonth(p)
           \/ d.month = RuleMonth(p) - 1 /\ d.day = 20
           \/ d.month = RuleMonth(p) + 1 /\ d.day = 10}

RuleTx(p, amount) ==
    IF amount = 0 THEN {}
    ELSE {Tx(1, RuleMonth(p), 1, 0, amount, "Food", "expense")}

\* the page with income among the transactions of the period
IncomeTxPool ==
    {Tx(1, 3, 1, 0, 1800, "Food", "expense"),
     Tx(8, 3, 3, 0, 520, "Rent", "expense"),
     Tx(10, 3, 2, 0, 1000, "Salary", "income"),
     Tx(11, 3, 2, 0, 5000, "Salary", "income")}

IncomeTables ==
    {T \in TipTables : \A r \in T : r.category \in {"Food", "Overall", "Rent"}}

\* tables of at most two budgets in December 2023 .. February 2024, with
\* their ids in either order, and the months the copy button is used in
CopyStorePeriods ==
    {YearMonth(2023, 12), YearMonth(2024, 1), YearMonth(2024, 2)}

CopyPeriods == {YearMonth(2024, 1), YearMonth(2024, 2), YearMonth(2024, 3)}

CopyRows(id) ==
    [id : {id}, period : CopyStorePeriods, category : StoreCategories,
     amount : {a \in StoreAmounts : a > 0}]

CopyTables ==
    {{}} \cup {{r} : r \in CopyRows(1)}
         \cup {T \in {{r1, r2} : r1 \in CopyRows(1), r2 \in CopyRows(2)} :
                  \A x, y \in T :
                      (x.period = y.period /\ x.category = y.category)
                          => x = y}

(***************************************************************************)
(* Calls of build_budget_report, and the clock                             *)
(***************************************************************************)
\* one call of build_budget_report(period, tx_df, budgets_df)
BuildReport ==
    /\ call' = [kind |-> "call", period |-> period, tx |-> tx_df,
                budgets |-> budgets_df, today |-> today,
                result |-> build_budget_report(period, tx_df, budgets_df)]
    /\ prevCall' = call
    /\ UNCHANGED <<budgets, nextId, lastOp, today, period, tx_df, budgets_df,
                   tips>>

\* days pass
Tick ==
    /\ \E d \in ClockDates : DateLess(today, d) /\ today' = d
    /\ UNCHANGED <<budgets, nextId, lastOp, period, tx_df, budgets_df, call,
                   prevCall, tips>>

\* one call of generate_tips(report_raw, period, tx_df) on the report of the
\* last call of build_budget_report
GenerateTips ==
    /\ call # None
    /\ call.result.ok
    /\ \E t \in generate_tips(call.result.rows) :
           tips' = [kind |-> "call", report_df |-> call.result.rows,
                    result |-> t]
    /\ UNCHANGED <<budgets, nextId, lastOp, today, period, tx_df, budgets_df,
                   call, prevCall>>

(***************************************************************************)
(* Specifications                                                          *)
(***************************************************************************)
\* the budget store from its empty table
Init ==
    /\ budgets = {}
    /\ nextId = 1
    /\ lastOp = NoOp
    /\ today = [year |-> 2024, month |-> 3, day |-> 15]
    /\ period = YearMonth(2024, 3)
    /\ tx_df = {}
    /\ budgets_df = <<>>
    /\ call = None
    /\ prevCall = None
    /\ tips = None

Next ==
    \/ \E p \in StorePeriods, c \in StoreCategories, a \in StoreAmounts :
           upsert_budget(p, c, a)
    \/ \E id \in 0..MaxId : delete_budget(id)
    \/ \E p \in StorePeriods : copy_prev(p)

Spec == Init /\ [][Next]_vars

\* build_budget_report on every frame of transactions and budgets
InitReport ==
    /\ budgets = {}
    /\ nextId = 1
    /\ lastOp = NoOp
    /\ today \in ClockDates
    /\ period \in ReportPeriods
    /\ period = YearMonth(2024, 4) => today = [year |-> 2024, month |-> 4, day |-> 10]
    /\ tx_df \in TxFrames
    /\ budgets_df \in BudgetFrames
    /\ call = None
    /\ prevCall = None
    /\ tips = None

SpecReport == InitReport /\ [][BuildReport]_vars

\* build_budget_report on every period string and every date of the clock
InitPeriod ==
    /\ budgets = {}
    /\ nextId = 1
    /\ lastOp = NoOp
    /\ \/ period \in ValidPeriods /\ today \in AllDates
       \/ period \in OddPeriods /\ today \in ClockDates
    /\ tx_df = {Tx(1, 3, 1, 0, 1800, "Food", "expense")}
    /\ budgets_df = <<[category |-> "Food", amount |-> 3000]>>
    /\ call = None
    /\ prevCall = None
    /\ tips = None

SpecPeriod == InitPeriod /\ [][BuildReport]_vars

\* repeated calls of build_budget_report while the clock advances
InitClock ==
    /\ budgets = {}
    /\ nextId = 1
    /\ lastOp = NoOp
    /\ today \in ClockDates
    /\ period \in ReportPeriods
    /\ tx_df \in {S \in TxFrames : Cardinality(S) <= 1}
    /\ budgets_df \in {f \in BudgetFrames :
                          Len(f) <= 1 /\ \A i \in 1..Len(f) : f[i].amount > 0}
    /\ call = None
    /\ prevCall = None
    /\ tips = None

NextClock == BuildReport \/ Tick

SpecClock == InitClock /\ [][NextClock]_vars

\* build_budget_report on one budget row over a range of amounts and dates
InitRules ==
    /\ budgets = {}
    /\ nextId = 1
    /\ lastOp = NoOp
    /\ period \in ReportPeriods
    /\ today \in RuleDates(period)
    /\ \E b \in RuleBudgets : budgets_df = <<[category |-> "Food", amount |-> b]>>
    /\ \E a \in RuleActuals : tx_df = RuleTx(period, a)
    /\ call = None
    /\ prevCall = None
    /\ tips = None

SpecRules == InitRules /\ [][BuildReport]_vars

\* the Budgets & Tips page: the report of the period's budgets, then its tips
InitTips ==
    /\ budgets \in TipTables
    /\ nextId = Cardinality(TipCategories) + 1
    /\ lastOp = NoOp
    /\ today \in TipDates
    /\ period = YearMonth(2024, 3)
    /\ tx_df \in SUBSET TipTxPool
    /\ budgets_df = get_budgets(period)
    /\ call = None
    /\ prevCall = None
    /\ tips = None

NextTips == BuildReport \/ GenerateTips

SpecTips == InitTips /\ [][NextTips]_vars

\* the Budgets & Tips page in a month with income
InitIncome ==
    /\ budgets \in IncomeTables
    /\ nextId = Cardinality(TipCategories) + 1
    /\ lastOp = NoOp
    /\ today \in TipDates
    /\ period = YearMonth(2024, 3)
    /\ tx_df \in SUBSET IncomeTxPool
    /\ budgets_df = get_budgets(period)
    /\ call = None
    /\ prevCall = None
    /\ tips = None

SpecIncome == InitIncome /\ [][NextTips]_vars

\* the button "Copy last month's budgets" on a table of a few budgets
InitCopy ==
    /\ budgets \in CopyTables
    /\ nextId = Cardinality(budgets) + 1
    /\ lastOp = NoOp
    /\ today = [year |-> 2024, month |-> 3, day |-> 15]
    /\ period = YearMonth(2024, 3)
    /\ tx_df = {}
    /\ budgets_df = <<>>
    /\ call = None
    /\ prevCall = None
    /\ tips = None

NextCopy == \E p \in CopyPeriods : copy_prev(p)

SpecCopy == InitCopy /\ [][NextCopy]_vars

(***************************************************************************)
(* Properties                                                              *)
(***************************************************************************)
Called == call # None /\ call.result.ok

Statuses ==
    {"No budget set", "Spending without a budget", "Over budget (projected)",
     "Slightly over", "Ahead of pace", "On track"}

\* the conditions of the rules 1..5 on the metrics of a row
Rule1(r) == r.budget = 0 /\ r.actual = 0

Rule2(r) == r.budget = 0 /\ r.actual > 0

Rule3(r) ==
    /\ r.budget # 0
    /\ r.proj_delta.n > 0
    /\ 10 * r.proj_delta.n >= r.budget * r.proj_delta.d

Rule4(r) == r.delta > 0

Rule5(r) ==
    r.pct_used.n * r.elapsed_pct.d
        > (r.elapsed_pct.n + 10 * r.elapsed_pct.d) * r.pct_used.d

FirstRule(r) ==
    IF Rule1(r) THEN "No budget set"
    ELSE IF Rule2(r) THEN "Spending without a budget"
    ELSE IF Rule3(r) THEN "Over budget (projected)"
    ELSE IF Rule4(r) THEN "Slightly over"
    ELSE IF Rule5(r) THEN "Ahead of pace"
    ELSE "On track"

\* C1: every row of every report carries exactly one of the six statuses, and
\* it is the status of the lowest-numbered rule whose condition holds on the
\* row's metrics: no higher-numbered rule is chosen over a lower one.
C1_RulePriority ==
    Called =>
        /\ Len(call.result.rows) = Len(call.result.df)
        /\ \A i \in 1..Len(call.result.df) :
               LET r == call.result.df[i]
               IN  /\ r.status \in Statuses
                   /\ r.status = FirstRule(r)
                   /\ \E j \in 1..Len(call.result.rows) :
                          /\ call.result.rows[j].Category = r.category
                          /\ call.result.rows[j].Status = r.status

\* a row on which the conditions of rule 3 and of rule 4 both hold and that
\* got the status of rule 3
C1_Witness ==
    /\ Called
    /\ \E i \in 1..Len(call.result.df) :
           LET r == call.result.df[i]
           IN  Rule3(r) /\ Rule4(r) /\ r.status = "Over budget (projected)"

\* C2: for every period 'YYYY-MM' and every date of the clock the elapsed ratio
\* days_elapsed / days_in_month of the report lies in (0, 1], and the
\* elapsed_pct of its rows in (0, 100].
C2_ElapsedRatioRange ==
    Called =>
        /\ 0 < call.result.mb.days_elapsed
        /\ call.result.mb.days_elapsed <= call.result.mb.dim
        /\ \A i \in 1..Len(call.result.df) :
               LET e == call.result.df[i].elapsed_pct
               IN  0 < e.n /\ e.n <= 100 * e.d

\* the report of February 2024 built on the 29th: the ratio is exactly 1
C2_Witness ==
    /\ Called
    /\ call.period = YearMonth(2024, 2)
    /\ call.today = [year |-> 2024, month |-> 2, day |-> 29]
    /\ call.result.mb.days_elapsed = 29
    /\ Len(call.result.df) = 1
    /\ call.result.df[1].elapsed_pct.n = 100 * call.result.df[1].elapsed_pct.d

\* C3: days_elapsed is the day of the month of the reference date in the month
\* of the reference date, days_in_month in an earlier month (ratio 1) and 1 in
\* a later month; 2024-03 on 2024-03-15 has 31 days of which 15 have elapsed.
C3_DaysElapsedCases ==
    Called =>
        \A y \in FirstYear..LastYear, m \in 1..12 :
            call.period = YearMonth(y, m) =>
                LET de == call.result.mb.days_elapsed
                    dim == call.result.mb.dim
                    now == call.today
                IN  /\ dim = CalendarDays(y, m)
                    /\ (y = now.year /\ m = now.month) => de = now.day
                    /\ (12 * y + m < 12 * now.year + now.month) => de = dim
                    /\ (12 * y + m > 12 * now.year + now.month) => de = 1
                    /\ (y = 2024 /\ m = 3 /\ now.day = 15 /\ now.month = 3
                            /\ now.year = 2024) => (dim = 31 /\ de = 15)

\* the example of the claim: 2024-03 resolved on 2024-03-15
C3_Witness ==
    /\ Called
    /\ call.period = YearMonth(2024, 3)
    /\ call.today = [year |-> 2024, month |-> 3, day |-> 15]
    /\ call.result.mb.dim = 31
    /\ call.result.mb.days_elapsed = 15

\* two successive calls with the same arguments
SameArguments ==
    /\ call # None
    /\ prevCall # None
    /\ call.period = prevCall.period
    /\ call.tx = prevCall.tx
    /\ call.budgets = prevCall.budgets

\* what a call hands back to its caller: the exception or the returned frame
Returned(c) == <<c.result.ok, c.result.error, c.result.rows>>

OnDayOfPeriod(t) ==
    \E y \in FirstYear..LastYear, m \in 1..12 :
        /\ call.period = YearMonth(y, m)
        /\ t.date.year = y
        /\ t.date.month = m
        /\ t.date.day \in 1..CalendarDays(y, m)

\* C5: the actual of every row but 'Overall' is the sum of the expenses of the
\* row's category dated on a day of the period, first and last day included;
\* income and other months never count, and no such expense means actual 0.
C5_CategoryActual ==
    Called =>
        \A i \in 1..Len(call.result.df) :
            LET r == call.result.df[i]
            IN  r.category # "Overall" =>
                    r.actual = SumAmount({t \in call.tx :
                                             /\ t.type = "expense"
                                             /\ t.category = r.category
                                             /\ OnDayOfPeriod(t)})

\* C6: the actual of the 'Overall' row is the sum of all the expenses dated on
\* a day of the period, whatever their category.
C6_OverallActual ==
    Called =>
        \A i \in 1..Len(call.result.df) :
            LET r == call.result.df[i]
            IN  r.category = "Overall" =>
                    r.actual = SumAmount({t \in call.tx :
                                             /\ t.type = "expense"
                                             /\ OnDayOfPeriod(t)})

\* C7: the report has exactly one row per row of budgets_df, with that row's
\* category and budget, in ascending order of the category; no budgets, no rows.
C7_OneRowPerBudget ==
    Called =>
        LET rows == call.result.rows
            bdf == call.budgets
        IN  /\ Len(rows) = Len(bdf)
            /\ \A i \in 1..Len(bdf) :
                   Cardinality({j \in 1..Len(rows) :
                                   /\ rows[j].Category = bdf[i].category
                                   /\ rows[j].Budget = bdf[i].amount}) = 1
            /\ \A j \in 1..Len(rows) :
                   \E i \in 1..Len(bdf) : rows[j].Category = bdf[i].category
            /\ \A j, k \in 1..Len(rows) :
                   j < k => Rank(rows[j].Category) < Rank(rows[k].Category)
            /\ bdf = <<>> => rows = <<>>

\* budgets passed in the order Rent, Food come back in the order Food, Rent
C7_Witness ==
    /\ Called
    /\ Len(call.budgets) = 2
    /\ call.budgets[1].category = "Rent"
    /\ call.budgets[2].category = "Food"
    /\ Len(call.result.rows) = 2
    /\ call.result.rows[1].Category = "Food"
    /\ call.result.rows[2].Category = "Rent"

\* C8: every stored budget has amount > 0, and a set with amount <= 0 raises
\* the validation error and leaves the table as it was.
C8_PositiveAmounts ==
    /\ [](\A r \in budgets : r.amount > 0)
    /\ [][(lastOp'.op = "upsert_budget" /\ lastOp'.amount <= 0) =>
              (lastOp'.outcome = "ValueError" /\ budgets' = budgets)]_vars

\* a set with amount <= 0 was refused on a table that holds budgets
C8_Witness ==
    /\ lastOp.op = "upsert_budget"
    /\ lastOp.amount <= 0
    /\ lastOp.outcome = "ValueError"
    /\ \E r \in budgets :
           r.period = lastOp.period /\ r.category = lastOp.category

KeyRows(rows, p, category) ==
    {r \in rows : r.period = p /\ r.category = category}

\* C9: the table never holds two rows of one (period, category); after a set
\* that succeeds the key has exactly one row, with the amount just set, and
\* the rows of the other keys are as before.
C9_OneRowPerKey ==
    /\ [](\A r1, r2 \in budgets :
             (r1.period = r2.period /\ r1.category = r2.category) => r1 = r2)
    /\ [][(lastOp'.op = "upsert_budget" /\ lastOp'.outcome = "ok"
              /\ nextId' # nextId) =>
              /\ Cardinality(KeyRows(budgets', lastOp'.period,
                                     lastOp'.category)) = 1
              /\ \A r \in KeyRows(budgets', lastOp'.period, lastOp'.category) :
                     r.amount = lastOp'.amount
              /\ budgets' \ KeyRows(budgets', lastOp'.period, lastOp'.category)
                     = budgets \ KeyRows(budgets, lastOp'.period,
                                         lastOp'.category)]_vars

\* a set has overwritten the amount of a key set before (the row keeps an
\* id older than the statement's), next to a row of another key
C9_Witness ==
    /\ lastOp.op = "upsert_budget"
    /\ lastOp.outcome = "ok"
    /\ \E r \in KeyRows(budgets, lastOp.period, lastOp.category) :
           r.id < nextId - 1 /\ r.amount = lastOp.amount
    /\ budgets \ KeyRows(budgets, lastOp.period, lastOp.category) # {}

DashCount(s) == Cardinality({i \in 1..Len(s) : s[i] = "-"})

\* a field with no digit, or with a character no integer literal has
NonNumeric(f) ==
    \/ \A i \in 1..Len(f) : ~IsDigit(f[i])
    \/ \E i \in 1..Len(f) : ~IsDigit(f[i]) /\ f[i] \notin {" ", "+"}

\* not two '-'-separated fields, a non-numeric field, or a month not in 1..12
Malformed(s) ==
    \/ DashCount(s) # 1
    \/ LET k == CHOOSE i \in 1..Len(s) : s[i] = "-"
           y == SubSeq(s, 1, k - 1)
           m == SubSeq(s, k + 1, Len(s))
       IN  \/ NonNumeric(y)
           \/ NonNumeric(m)
           \/ (\A i \in 1..Len(m) : IsDigit(m[i])) /\ DigitsVal(m) \notin 1..12

\* C10: a period that is not two '-'-separated integers, or whose month is not
\* in 1..12, makes the call raise ValueError and return no report.
C10_InvalidPeriod ==
    (call # None /\ Malformed(call.period)) =>
        /\ ~call.result.ok
        /\ call.result.error = "ValueError"
        /\ call.result.rows = <<>>

\* the call with period '2024-13' has raised
C10_Witness ==
    /\ call # None
    /\ call.period = <<"2", "0", "2", "4", "-", "1", "3">>
    /\ ~call.result.ok
    /\ call.result.error = "ValueError"

(***************************************************************************)
(* Properties of generate_tips                                             *)
(***************************************************************************)
\* generate_tips has run on the report of the last call of
\* build_budget_report
TipsCalled ==
    /\ tips # None
    /\ Called
    /\ tips.report_df = call.result.rows

\* the row of df that a row of the report displays
DfRow(category) ==
    call.result.df[CHOOSE i \in 1..Len(call.result.df) :
                       call.result.df[i].category = category]

\* proj_delta = projected_end - budget of the i-th row of the report
ExactProjDelta(i) == DfRow(tips.report_df[i].Category).proj_delta

\* round(proj_delta / budget * 100) of the i-th row of the report
ExactOverPct(i) ==
    LET r == DfRow(tips.report_df[i].Category)
    IN  Round(RatMul(RatDiv(r.proj_delta, RatInt(r.budget)), RatInt(100)))

\* the column "Proj Δ" of the i-th row of the report: proj_delta rounded to
\* a whole number
ShownProjDelta(i) == RatInt(tips.report_df[i].ProjDelta)

\* round("Proj Δ" / "Budget" * 100) of the i-th row, 0 for a "Budget" of 0
ShownOverPct(i) ==
    LET r == tips.report_df[i]
    IN  IF r.Budget > 0
        THEN Round(RatMul(RatDiv(RatInt(r.ProjDelta), RatInt(r.Budget)),
                          RatInt(100)))
        ELSE 0

\* the tips start with one message for each of the at most 3 rows of largest
\* strictly positive pd, in descending order of pd, each naming the row's
\* category, overage amount, percentage pct and action; no other tip is such
\* a message
TopOverages(pd(_), pct(_)) ==
    LET rows == tips.report_df
        t == tips.result
        P == {i \in 1..Len(rows) : RatLess(RatInt(0), pd(i))}
        n == Min(3, Cardinality(P))
    IN  /\ Len(t) >= n
        /\ \E m \in [1..n -> P] :
               /\ \A k, l \in 1..n :
                      k < l => m[k] # m[l] /\ RatLeq(pd(m[l]), pd(m[k]))
               /\ \A k \in 1..n :
                      t[k] = Tip("overage", rows[m[k]].Category,
                                 rows[m[k]].ProjDelta, pct(m[k]),
                                 rows[m[k]].Action, rows[m[k]].Cut)
               /\ \A i \in P :
                      (\A k \in 1..n : m[k] # i) =>
                          \A k \in 1..n : RatLeq(pd(i), pd(m[k]))
        /\ \A k \in (n + 1)..Len(t) : t[k].kind # "overage"

\* C11 as stated: the tips start with one message for each of the at most 3
\* report rows of largest strictly positive proj_delta = projected_end -
\* budget, in descending order, naming the category, the overage amount, the
\* percentage round(proj_delta / budget * 100) and the action; rows with
\* proj_delta <= 0 get no such message.
C11_TopOverages == TipsCalled => TopOverages(ExactProjDelta, ExactOverPct)

\* C11 as amended: the same of the values the report displays.  The rows are
\* chosen and ordered by the column "Proj Δ" (proj_delta rounded to a whole
\* number), so a row with 0 < proj_delta <= 0.5 gets no message, and the
\* percentage is round("Proj Δ" / "Budget" * 100) of the rounded columns.
C11_TopDisplayedOverages ==
    TipsCalled => TopOverages(ShownProjDelta, ShownOverPct)

\* four rows of the report have a positive "Proj Δ" and the tips hold three
\* messages of rule 1
C11_Witness ==
    /\ TipsCalled
    /\ Cardinality({i \in 1..Len(tips.report_df) :
                        tips.report_df[i].ProjDelta > 0}) >= 4
    /\ Cardinality({k \in 1..Len(tips.result) :
                        tips.result[k].kind = "overage"}) = 3

\* how many of the tips are the tip t
CountTip(t) ==
    Cardinality({k \in 1..Len(tips.result) : tips.result[k] = t})

\* how many rows of the report have the status
CountStatus(status) ==
    Cardinality({i \in 1..Len(tips.report_df) :
                     tips.report_df[i].Status = status})

\* C12: the tips hold the congratulatory tip, once, if the report has rows and
\* at least 0.6 of them have the status On track (3 of 5, 3 of 4), and do not
\* hold it otherwise (2 of 4, an empty report).
C12_OnTrackTip ==
    TipsCalled =>
        IF /\ tips.report_df # <<>>
           /\ 10 * CountStatus("On track") >= 6 * Len(tips.report_df)
        THEN CountTip(OnTrackTip) = 1
        ELSE CountTip(OnTrackTip) = 0

\* exactly 3 of the 5 rows of a report are on track and the tip is there
C12_Witness ==
    /\ TipsCalled
    /\ Len(tips.report_df) = 5
    /\ CountStatus("On track") = 3
    /\ CountTip(OnTrackTip) = 1

\* C13: the tips hold the pacing warning (the spend freeze), once, if at least
\* 2 rows of the report have the status Ahead of pace, and do not hold it
\* with 0 or 1 such rows.
C13_SpendFreezeTip ==
    TipsCalled =>
        IF CountStatus("Ahead of pace") >= 2
        THEN CountTip(SpendFreezeTip) = 1
        ELSE CountTip(SpendFreezeTip) = 0

\* two rows of a report are ahead of pace and the warning is there
C13_Witness ==
    /\ TipsCalled
    /\ CountStatus("Ahead of pace") = 2
    /\ CountTip(SpendFreezeTip) = 1

\* the place of a tip in the order of the rules that append it
TipRank(t) ==
    IF t.kind = "overage" THEN 1
    ELSE IF t.kind = "spend freeze" THEN 2
    ELSE 3

\* C14: the list of tips never holds the same tip twice, and it is in the
\* order in which the rules append: the messages of rule 1 first, then the
\* pacing warning, then the congratulatory tip; for a report without rows it
\* is empty.
C14_OrderedDistinctTips ==
    TipsCalled =>
        /\ \A k, l \in 1..Len(tips.result) :
               k < l =>
                   /\ tips.result[k] # tips.result[l]
                   /\ TipRank(tips.result[k]) <= TipRank(tips.result[l])
        /\ tips.report_df = <<>> => tips.result = <<>>

\* tips of all three rules, in a list
C14_Witness ==
    /\ TipsCalled
    /\ Len(tips.result) >= 3
    /\ tips.result[1].kind = "overage"
    /\ tips.result[Len(tips.result) - 1] = SpendFreezeTip
    /\ tips.result[Len(tips.result)] = OnTrackTip

(***************************************************************************)
(* Properties of the rules and the metrics of build_budget_report          *)
(***************************************************************************)
\* elapsed_ratio = max(1, days_elapsed) / days_in_month of the last call, as
\* the fraction n / d
ElapsedN == Max(1, call.result.mb.days_elapsed)

ElapsedD == call.result.mb.dim

\* clamp(round(x * 100), lo, hi) of the fraction x = n / d with d > 0
Clamp(lo, hi, n, d) ==
    LET q == (100 * n) \div d
        r == (100 * n) % d
        rounded == IF 2 * r < d THEN q
                   ELSE IF 2 * r > d THEN q + 1
                   ELSE IF q % 2 = 0 THEN q ELSE q + 1
    IN  IF rounded < lo THEN lo ELSE IF rounded > hi THEN hi ELSE rounded

\* C15: a row with budget > 0 has the status Over budget (projected) exactly
\* when proj_delta > 0 and proj_delta / budget >= 0.10; its cut is then
\* clamp(round(proj_delta / budget * 100), 5, 20), within 5..20.  Budget 3000
\* with actual 1800 at the ratio 15/31: safe ratio 1/2, projected_end 3600,
\* proj_delta 600, that status, cut 20.
C15_Rule3 ==
    Called =>
        \A i \in 1..Len(call.result.df) :
            LET r == call.result.df[i]
                pd == r.proj_delta
            IN  /\ r.budget > 0 =>
                       /\ r.status = "Over budget (projected)" <=>
                              (pd.n > 0 /\ 10 * pd.n >= r.budget * pd.d)
                       /\ r.status = "Over budget (projected)" =>
                              /\ r.cut = Clamp(5, 20, pd.n, pd.d * r.budget)
                              /\ r.cut \in 5..20
                /\ (r.budget = 3000 /\ r.actual = 1800
                        /\ ElapsedN = 15 /\ ElapsedD = 31) =>
                       /\ r.projected_end.n = 3600 * r.projected_end.d
                       /\ pd.n = 600 * pd.d
                       /\ r.status = "Over budget (projected)"
                       /\ r.cut = 20

\* the row of the example, and it is Over budget (projected) with cut 20
C15_Witness ==
    /\ Called
    /\ \E i \in 1..Len(call.result.df) :
           LET r == call.result.df[i]
           IN  /\ r.budget = 3000 /\ r.actual = 1800
               /\ ElapsedN = 15 /\ ElapsedD = 31
               /\ r.status = "Over budget (projected)" /\ r.cut = 20

\* C16 as stated (Scenario D): a row with budget 1000 and actual 1200 has the
\* status Slightly over with cut clamp(round(20), 5, 10) = 10, rule 3 not
\* being triggered for it.
C16_ScenarioD ==
    Called =>
        \A i \in 1..Len(call.result.df) :
            LET r == call.result.df[i]
            IN  (r.budget = 1000 /\ r.actual = 1200) =>
                    /\ ~Rule3(r)
                    /\ r.status = "Slightly over"
                    /\ r.cut = 10

\* C16 as amended: a row with budget 1000 and actual 1200 has delta 200 and
\* proj_delta >= delta = 0.20 * budget, so rule 3 is triggered for it on
\* every date: its status is Over budget (projected) and its cut
\* clamp(round(proj_delta / budget * 100), 5, 20) = 20.  A row is Slightly
\* over only with 0 < delta < 0.10 * budget, and its cut is then
\* clamp(round(delta / budget * 100), 5, 10).
C16_ScenarioDProjected ==
    Called =>
        \A i \in 1..Len(call.result.df) :
            LET r == call.result.df[i]
            IN  /\ (r.budget = 1000 /\ r.actual = 1200) =>
                       /\ r.delta = 200
                       /\ 5 * r.proj_delta.n >= r.budget * r.proj_delta.d
                       /\ r.status = "Over budget (projected)"
                       /\ r.cut = 20
                /\ r.status = "Slightly over" =>
                       /\ 0 < r.delta
                       /\ 10 * r.delta < r.budget
                       /\ r.cut = Clamp(5, 10, r.delta, r.budget)

\* the row of Scenario D at the end of the month, where proj_delta = delta
C16_Witness ==
    /\ Called
    /\ ElapsedN = ElapsedD
    /\ \E i \in 1..Len(call.result.df) :
           LET r == call.result.df[i]
           IN  /\ r.budget = 1000 /\ r.actual = 1200
               /\ r.proj_delta.n = 200 * r.proj_delta.d
               /\ r.status = "Over budget (projected)"

\* C17: a row with budget > 0 on which rule 3 does not match has the status
\* Slightly over exactly when delta = actual - budget > 0; its cut is then
\* clamp(round(delta / budget * 100), 5, 10), within 5..10.
C17_Rule4 ==
    Called =>
        \A i \in 1..Len(call.result.df) :
            LET r == call.result.df[i]
            IN  (r.budget > 0 /\ ~Rule3(r)) =>
                    /\ r.delta = r.actual - r.budget
                    /\ r.status = "Slightly over" <=> r.delta > 0
                    /\ r.status = "Slightly over" =>
                           /\ r.cut = Clamp(5, 10, r.delta, r.budget)
                           /\ r.cut \in 5..10

\* a row that is Slightly over by 7.5 percent of its budget, with the cut 8
C17_Witness ==
    /\ Called
    /\ \E i \in 1..Len(call.result.df) :
           LET r == call.result.df[i]
           IN  /\ r.budget = 1000 /\ r.actual = 1075
               /\ ~Rule3(r)
               /\ r.status = "Slightly over" /\ r.cut = 8

\* C18: projected_end = actual / max(0.5, elapsed_ratio) on every row, so
\* that actual <= projected_end <= 2 * actual (and projected_end >= actual
\* when elapsed_ratio < 1); the divisor is never 0.
C18_ProjectedEnd ==
    Called =>
        /\ ElapsedD > 0
        /\ \A i \in 1..Len(call.result.df) :
               LET r == call.result.df[i]
                   pe == r.projected_end
               IN  /\ pe.d > 0
                   /\ IF 2 * ElapsedN < ElapsedD
                      THEN pe.n = 2 * r.actual * pe.d
                      ELSE pe.n * ElapsedN = r.actual * ElapsedD * pe.d
                   /\ r.actual * pe.d <= pe.n
                   /\ pe.n <= 2 * r.actual * pe.d

\* rows with an actual > 0 early in the month, where projected_end is twice
\* the actual, and later, where it lies strictly between
C18_Witness ==
    /\ Called
    /\ 2 * ElapsedN > ElapsedD
    /\ ElapsedN < ElapsedD
    /\ \E i \in 1..Len(call.result.df) :
           LET r == call.result.df[i]
               pe == r.projected_end
           IN  /\ r.actual > 0
               /\ r.actual * pe.d < pe.n
               /\ pe.n < 2 * r.actual * pe.d

\* a fraction n / d with d > 0 in lowest terms
RECURSIVE Gcd(_, _)
Gcd(a, b) == IF b = 0 THEN a ELSE Gcd(b, a % b)

Lowest(x) ==
    LET g == Gcd(IF x.n < 0 THEN 0 - x.n ELSE x.n, x.d)
    IN  [n |-> x.n \div g, d |-> x.d \div g]

\* C19: on every row pct_used >= 0, pct_used = actual / budget * 100 for a
\* budget > 0 and pct_used = 0 for the budget 0, pace_gap = pct_used -
\* elapsed_pct and delta = actual - budget.
C19_Metrics ==
    Called =>
        \A i \in 1..Len(call.result.df) :
            LET r == call.result.df[i]
                u == r.pct_used
                g == r.pace_gap
            IN  /\ u.d > 0 /\ u.n >= 0
                /\ IF r.budget > 0
                   THEN u.n * r.budget = 100 * r.actual * u.d
                   ELSE u.n = 0
                /\ r.elapsed_pct.n * ElapsedD
                       = 100 * ElapsedN * r.elapsed_pct.d
                /\ g.d > 0
                /\ Lowest(g)
                       = Lowest([n |-> Lowest(u).n * ElapsedD
                                           - 100 * ElapsedN * Lowest(u).d,
                                 d |-> Lowest(u).d * ElapsedD])
                /\ r.delta = r.actual - r.budget

\* a row of budget 0 with spending, and its pct_used is 0
C19_Witness ==
    /\ Called
    /\ \E i \in 1..Len(call.result.df) :
           LET r == call.result.df[i]
           IN  /\ r.budget = 0 /\ r.actual > 0
               /\ r.pct_used.n = 0
               /\ r.pace_gap.n < 0

C21_RowsWithoutBudget ==
    Called =>
        \A i \in 1..Len(call.result.df) :
            LET r == call.result.df[i]
            IN  r.budget = 0 =>
                    /\ r.actual = 0 => r.status = "No budget set"
                    /\ r.actual > 0 => r.status = "Spending without a budget"
                    /\ r.pct_used.n = 0
                    /\ r.cut = 0
                    /\ \E j \in 1..Len(call.result.rows) :
                           /\ call.result.rows[j].Category = r.category
                           /\ call.result.rows[j].Status = r.status

\* a report with the row Rent of budget 0 and actual 0 and with a row of
\* budget 0 that has spending and a positive projection
C21_Witness ==
    /\ Called
    /\ \E i \in 1..Len(call.result.df) :
           LET r == call.result.df[i]
           IN  /\ r.category = "Rent" /\ r.budget = 0 /\ r.actual = 0
               /\ r.status = "No budget set"
    /\ \E i \in 1..Len(call.result.df) :
           LET r == call.result.df[i]
           IN  /\ r.budget = 0 /\ r.actual > 0
               /\ r.proj_delta.n > 0
               /\ r.status = "Spending without a budget"

\* total income of the period: the income rows of tx_df inside the window
PeriodIncome ==
    SumAmount({t \in in_window(call.tx, call.result.mb.start,
                               call.result.mb.end) : t.type = "income"})

\* total projected expense: the projected_end = actual / max(0.5,
\* elapsed_ratio) of the rows other than Overall, summed
RECURSIVE SumProjected(_, _)
SumProjected(df, i) ==
    IF i = 0 THEN RatInt(0)
    ELSE IF df[i].category = "Overall" THEN SumProjected(df, i - 1)
    ELSE RatAdd(SumProjected(df, i - 1), df[i].projected_end)

ProjectedExpense == SumProjected(call.result.df, Len(call.result.df))

\* C22: when the income of the period is > 0 and the total projected expense
\* of the rows other than Overall exceeds it by more than 5 percent, the tips
\* of the report hold a savings-risk warning.
C22_SavingsRiskTip ==
    (/\ TipsCalled
     /\ PeriodIncome > 0
     /\ RatLess(Rat(105 * PeriodIncome, 100), ProjectedExpense)) =>
        \E k \in 1..Len(tips.result) : tips.result[k].kind = "savings risk"

\* the period of the last call lies strictly before the month of the date it
\* was made on
PastPeriod ==
    TsLess(call.result.mb.start,
           Timestamp(call.today.year, call.today.month, 1))

\* C23: in a report of a period strictly before the current month the elapsed
\* ratio is 1, projected_end = actual and proj_delta = delta on every row, and
\* no row with budget > 0 is Ahead of pace: its status is Over budget
\* (projected), Slightly over or On track, and a row with pct_used > 110 is
\* Over budget (projected).
C23_PastPeriodNeverAhead ==
    (Called /\ PastPeriod) =>
        /\ ElapsedN = ElapsedD
        /\ \A i \in 1..Len(call.result.df) :
               LET r == call.result.df[i]
               IN  /\ r.projected_end.n = r.actual * r.projected_end.d
                   /\ r.proj_delta.n = r.delta * r.proj_delta.d
                   /\ r.budget > 0 =>
                          /\ r.status \in {"Over budget (projected)",
                                           "Slightly over", "On track"}
                          /\ 100 * r.actual > 110 * r.budget =>
                                 r.status = "Over budget (projected)"

\* a past period with a row whose pct_used is above 110: March seen from
\* April with actual 1125 of budget 1000
C23_Witness ==
    /\ Called
    /\ PastPeriod
    /\ \E i \in 1..Len(call.result.df) :
           LET r == call.result.df[i]
           IN  /\ r.budget = 1000 /\ r.actual = 1125
               /\ r.status = "Over budget (projected)"

(***************************************************************************)
(* Properties of the copy of last month's budgets and of the ids           *)
(***************************************************************************)
\* the calendar month before the month 'YYYY-MM'
PrecedingMonth(p) ==
    LET ym == CHOOSE x \in (FirstYear..LastYear) \X (1..12) :
                  YearMonth(x[1], x[2]) = p
    IN  IF ym[2] = 1 THEN YearMonth(ym[1] - 1, 12)
        ELSE YearMonth(ym[1], ym[2] - 1)

\* the budgets of a period in a table
PeriodRows(table, p) == {r \in table : r.period = p}

\* C24: "Copy last month's budgets" for the period P takes the budgets of the
\* preceding calendar month (December of the year before for a January):
\* afterwards every category with a budget there has exactly one budget in P,
\* with the same amount, whatever amount P had for it; the budgets of P for
\* other categories and the budgets of the preceding month are unchanged; and
\* when the preceding month has no budgets nothing in the table changes.
C24_CopyLastMonth ==
    [][lastOp'.op = "copy_prev" =>
          LET P == lastOp'.period
              Q == PrecedingMonth(P)
          IN  /\ \A r \in PeriodRows(budgets, Q) :
                     /\ Cardinality(KeyRows(budgets', P, r.category)) = 1
                     /\ \A c \in KeyRows(budgets', P, r.category) :
                            c.amount = r.amount
              /\ \A r \in PeriodRows(budgets, P) :
                     KeyRows(budgets, Q, r.category) = {} => r \in budgets'
              /\ \A r \in PeriodRows(budgets', P) :
                     KeyRows(budgets, Q, r.category) = {} => r \in budgets
              /\ PeriodRows(budgets', Q) = PeriodRows(budgets, Q)
              /\ PeriodRows(budgets, Q) = {} =>
                     (budgets' = budgets /\ lastOp'.outcome = "none found")]_vars

\* after a copy into January 2024: a budget of December 2023 and the budget of
\* January with its category and amount, next to a budget of January for a
\* category that December has none for
C24_Witness ==
    /\ lastOp.op = "copy_prev"
    /\ lastOp.outcome = "ok"
    /\ lastOp.period = YearMonth(2024, 1)
    /\ \E r \in PeriodRows(budgets, YearMonth(2023, 12)) :
           /\ \E c \in PeriodRows(budgets, YearMonth(2024, 1)) :
                  c.category = r.category /\ c.amount = r.amount
           /\ \E c \in PeriodRows(budgets, YearMonth(2024, 1)) :
                  c.category # r.category

\* the ids of the rows of a table
Ids(table) == {r.id : r \in table}

\* C25: a set on an existing (period, category) changes only the amount of
\* that row and keeps its id; delete(id) removes exactly the row with that id,
\* leaves every other row as it is and changes nothing when no row has the
\* id; ids are unique, and a new row never takes an id that any row had
\* before: every id in the table is below the next id of the sequence, the
\* sequence never goes back, and a new row's id is not below it.
C25_StableIds ==
    /\ [](/\ \A r \in budgets : r.id < nextId
          /\ \A x, y \in budgets : x.id = y.id => x = y)
    /\ [][/\ nextId' >= nextId
          /\ \A r \in budgets' : r.id \notin Ids(budgets) => r.id >= nextId
          /\ (/\ lastOp'.op = "upsert_budget"
              /\ lastOp'.outcome = "ok"
              /\ KeyRows(budgets, lastOp'.period, lastOp'.category) # {}) =>
                 \E r \in KeyRows(budgets, lastOp'.period, lastOp'.category) :
                     budgets' = (budgets \ {r})
                                    \cup {[r EXCEPT !.amount = lastOp'.amount]}
          /\ lastOp'.op = "delete_budget" =>
                 /\ budgets' = {r \in budgets : r.id # lastOp'.id}
                 /\ Cardinality(budgets \ budgets') <= 1
                 /\ lastOp'.id \notin Ids(budgets) => budgets' = budgets]_vars

\* a budget was deleted and a budget set afterwards: the table holds a row
\* with the last id given out, and an id below it belongs to no row
C25_Witness ==
    /\ lastOp.op = "upsert_budget"
    /\ lastOp.outcome = "ok"
    /\ budgets # {}
    /\ \E r \in budgets :
           /\ r.id = nextId - 1
           /\ r.period = lastOp.period /\ r.category = lastOp.category
           /\ \E i \in 1..(r.id - 1) : i \notin Ids(budgets)

=============================================================================
